---------------------------- MODULE Spec2Model ----------------------------
(***************************************************************************)
(* TheiaProk-amr-visualizer.py: a linear batch pipeline                    *)
(*   read_csv -> dropna -> groupby/size -> merge -> percent -> ISO lookup  *)
(*   -> dropna(iso) -> geocoding loop -> apply_coords -> type filter       *)
(*   -> one Scattergeo trace per selected type -> show.                    *)
(*                                                                         *)
(* Units.  Latitudes, longitudes and jitter offsets are held in            *)
(* ten-thousandths of a degree (42.3154 is 423154, 0.2 is 2000), so that   *)
(* every coordinate literal of the script is an integer.  A percent is     *)
(* held as the exact fraction num/den (80.0 is 800/10).                    *)
(***************************************************************************)
EXTENDS Integers, Sequences, FiniteSets, Bags, TLC

\* Largest number of data rows of an input table.
MaxRows == 2

\* A missing field of the table (pandas NaN) and a missing ISO code (None).
NaN == "NaN"
None == "None"

\* Group keys in the order pandas' groupby(sort=True) emits them.
CountryOrder == <<"Atlantis", "Georgia", "Kenya", "Sudan", "Uganda">>
TypeOrder == <<"HR-TB", "MDR-TB", "Other", "Pre-MDR", "Pre-XDR-TB", "RR-TB",
               "Sensitive", "XDR-TB">>

Range(s) == {s[i] : i \in DOMAIN s}

RECURSIVE SeqSum(_)
SeqSum(s) == IF s = <<>> THEN 0 ELSE Head(s) + SeqSum(Tail(s))

Countries == Range(CountryOrder)
Types == Range(TypeOrder)

\* The rows a tab-separated input file can hold: either field may be absent.
SampleRows == [country : Countries \cup {NaN}, dr_type : Types \cup {NaN}]

RECURSIVE Tables(_)
Tables(n) ==
  IF n = 0 THEN {EmptyBag}
  ELSE LET T == Tables(n - 1)
       IN T \cup {b (+) SetToBag({r}) :
                    b \in {t \in T : BagCardinality(t) = n - 1}, r \in SampleRows}

VARIABLES
  pc,                \* position of the script
  tsv,               \* the input file: a bag of rows
  df,                \* the data frame of lines 16-17
  total_per_country, \* line 20
  counts,            \* lines 23-75: a sequence of rows, in frame order
  pending,           \* countries the geocoding loop has yet to visit
  country_coords,    \* line 50: the per-run coordinate cache
  events,            \* external geocoder calls and sleeps, in order
  drugs,             \* types the trace loop has yet to visit
  max_percent,       \* line 102
  traces             \* fig.data: the marker series added so far

vars == <<pc, tsv, df, total_per_country, counts, pending, country_coords,
          events, drugs, max_percent, traces>>

-----------------------------------------------------------------------------
(* Loader and aggregator, lines 16-25 *)

\* Variant: dropna(subset=[country]) only; rows without a type stay in df.
DropMissingCountryOnly(frame) ==
  LET keep == {r \in BagToSet(frame) : r.country # NaN}
  IN [r \in keep |-> frame[r]]

\* DataFrame.dropna(subset=[dr_type, country])
DropMissing(frame) ==
  LET keep == {r \in BagToSet(frame) : r.dr_type # NaN /\ r.country # NaN}
  IN [r \in keep |-> frame[r]]

RECURSIVE SumCopies(_, _)
SumCopies(frame, rows) ==
  IF rows = {} THEN 0
  ELSE LET r == CHOOSE x \in rows : TRUE
       IN frame[r] + SumCopies(frame, rows \ {r})

\* groupby(...).size() of one group: the number of rows of the frame in it
GroupSize(frame, group) == SumCopies(frame, group)

\* df.groupby(country).size().reset_index(name="total_samples")
TotalPerCountry(frame) ==
  LET present == {r.country : r \in BagToSet(frame)}
      keys == SelectSeq(CountryOrder, LAMBDA c : c \in present)
  IN [i \in 1..Len(keys) |->
        [country |-> keys[i],
         total_samples |->
           GroupSize(frame, {r \in BagToSet(frame) : r.country = keys[i]})]]

KeyOrder ==
  [i \in 1..(Len(CountryOrder) * Len(TypeOrder)) |->
     [country |-> CountryOrder[((i - 1) \div Len(TypeOrder)) + 1],
      dr_type |-> TypeOrder[((i - 1) % Len(TypeOrder)) + 1]]]

\* df.groupby([country, dr_type]).size().reset_index(name="count")
CountPerType(frame) ==
  LET keys == SelectSeq(KeyOrder, LAMBDA k : k \in BagToSet(frame))
  IN [i \in 1..Len(keys) |->
        [country |-> keys[i].country, dr_type |-> keys[i].dr_type,
         count |-> GroupSize(frame, {keys[i]})]]

\* counts.merge(total_per_country, on=country): an inner join
MergeTotals(cnt, totals) ==
  LET matched == SelectSeq(cnt, LAMBDA r :
                     \E j \in DOMAIN totals : totals[j].country = r.country)
      TotalOf(c) == totals[CHOOSE j \in DOMAIN totals : totals[j].country = c]
  IN [i \in 1..Len(matched) |->
        [country |-> matched[i].country, dr_type |-> matched[i].dr_type,
         count |-> matched[i].count,
         total_samples |-> TotalOf(matched[i].country).total_samples]]

\* Variant: floor division, (count // total_samples) * 100.
PercentFloorDiv(count, total) == [num |-> (count \div total) * 100, den |-> 1]

\* (count / total_samples) * 100, as an exact fraction
PercentOf(count, total) == [num |-> count * 100, den |-> total]

WithPercent(cnt) ==
  [i \in DOMAIN cnt |->
     [country |-> cnt[i].country, dr_type |-> cnt[i].dr_type,
      count |-> cnt[i].count, total_samples |-> cnt[i].total_samples,
      percent |-> PercentOf(cnt[i].count, cnt[i].total_samples)]]

-----------------------------------------------------------------------------
(* Country-code resolver, lines 28-35 *)

\* pycountry's country table, as far as it concerns the names of the model:
\* lookup("Atlantis") raises LookupError.
IsoTable ==
  ("Georgia" :> "GEO") @@ ("Kenya" :> "KEN") @@ ("Sudan" :> "SDN") @@
  ("Uganda" :> "UGA")

get_iso3(name) == IF name \in DOMAIN IsoTable THEN IsoTable[name] ELSE None

WithIso(cnt) ==
  [i \in DOMAIN cnt |->
     [country |-> cnt[i].country, dr_type |-> cnt[i].dr_type,
      count |-> cnt[i].count, total_samples |-> cnt[i].total_samples,
      percent |-> cnt[i].percent, iso_alpha |-> get_iso3(cnt[i].country)]]

\* Variant: the result of dropna is not assigned back; no row is dropped.
KeepNoIso(cnt) == cnt

\* counts.dropna(subset=["iso_alpha"])
DropNoIso(cnt) == SelectSeq(cnt, LAMBDA r : r.iso_alpha # None)

-----------------------------------------------------------------------------
(* Geocoder and layout mapper, lines 38-71 *)

jitter_map ==
  ("Sensitive" :> 0) @@ ("RR-TB" :> 2000) @@ ("MDR-TB" :> 4000) @@
  ("Pre-XDR-TB" :> 6000) @@ ("HR-TB" :> 8000) @@ ("XDR-TB" :> 10000) @@
  ("Other" :> 12000)

GeorgiaCoords == [lat |-> 423154, lon |-> 433569]
SudanCoords == [lat |-> 128628, lon |-> 302176]
DefaultCoords == [lat |-> 0, lon |-> 300000]

\* What the external geocoder answers with when it answers at all: some
\* point other than the overrides and the default.
Locations == {[lat |-> -236, lon |-> 379062]}

\* Variant: the loop runs over the country column without unique().
EveryRowCountry(cnt) == [i \in DOMAIN cnt |-> cnt[i].country]

\* counts[country].unique(): the countries in order of first appearance
Unique(cnt) ==
  LET firsts == SelectSeq([i \in DOMAIN cnt |-> i], LAMBDA i :
                   \A j \in 1..(i - 1) : cnt[j].country # cnt[i].country)
  IN [k \in 1..Len(firsts) |-> cnt[firsts[k]].country]

\* country_coords[country] = coords
Store(cache, country, coords) ==
  [c \in DOMAIN cache \cup {country} |->
     IF c = country THEN coords ELSE cache[c]]

GeocodeEvent(country, result) ==
  [op |-> "geocode", country |-> country, result |-> result, secs |-> 0]

\* sleep(1)
SleepEvent(country) ==
  [op |-> "sleep", country |-> country, result |-> "", secs |-> 1]

\* Variant: the jitter is added to the latitude as well.
apply_coords_both_axes(row, cache) ==
  LET coords == IF row.country \in DOMAIN cache THEN cache[row.country]
                ELSE DefaultCoords
      jitter == IF row.dr_type \in DOMAIN jitter_map
                THEN jitter_map[row.dr_type] ELSE 0
  IN [lat |-> coords.lat + jitter, lon |-> coords.lon + jitter]

\* apply_coords(row), given the cache
apply_coords(row, cache) ==
  LET coords == IF row.country \in DOMAIN cache THEN cache[row.country]
                ELSE DefaultCoords
      jitter == IF row.dr_type \in DOMAIN jitter_map
                THEN jitter_map[row.dr_type] ELSE 0
  IN [lat |-> coords.lat, lon |-> coords.lon + jitter]

AddCoords(cnt, cache) ==
  [i \in DOMAIN cnt |->
     [country |-> cnt[i].country, dr_type |-> cnt[i].dr_type,
      count |-> cnt[i].count, total_samples |-> cnt[i].total_samples,
      percent |-> cnt[i].percent, iso_alpha |-> cnt[i].iso_alpha,
      lat |-> apply_coords(cnt[i], cache).lat,
      lon |-> apply_coords(cnt[i], cache).lon]]

\* Variant: a country without a cached coordinate is dropped, as the ISO
\* resolver drops a country without a code.
WithCoordsDropUncached(cnt, cache) ==
  AddCoords(SelectSeq(cnt, LAMBDA r : r.country \in DOMAIN cache), cache)

\* counts[["lat", "lon"]] = counts.apply(apply_coords, axis=1)
WithCoords(cnt, cache) == AddCoords(cnt, cache)

-----------------------------------------------------------------------------
(* Renderer, lines 73-131 *)

selected_types ==
  <<"Sensitive", "Other", "HR-TB", "RR-TB", "MDR-TB", "Pre-XDR-TB", "XDR-TB">>

\* Variant: the filter is not applied.
SelectAllTypes(cnt) == cnt

\* Variant: the total and the percent are taken over the selected rows only.
SelectThenRenormalise(cnt) ==
  LET sel == SelectSeq(cnt, LAMBDA r : r.dr_type \in Range(selected_types))
      Shown(c) ==
        LET rows == SelectSeq(sel, LAMBDA r : r.country = c)
        IN SeqSum([i \in DOMAIN rows |-> rows[i].count])
  IN [i \in DOMAIN sel |->
        [country |-> sel[i].country, dr_type |-> sel[i].dr_type,
         count |-> sel[i].count, total_samples |-> Shown(sel[i].country),
         percent |-> PercentOf(sel[i].count, Shown(sel[i].country)),
         iso_alpha |-> sel[i].iso_alpha, lat |-> sel[i].lat,
         lon |-> sel[i].lon]]

\* counts[counts[dr_type].isin(selected_types)]
SelectTypes(cnt) ==
  SelectSeq(cnt, LAMBDA r : r.dr_type \in Range(selected_types))

color_map ==
  ("Sensitive" :> "#008000") @@ ("Other" :> "#333333") @@
  ("HR-TB" :> "#FFD700") @@ ("RR-TB" :> "#FF8C00") @@
  ("MDR-TB" :> "#9370DB") @@ ("Pre-XDR-TB" :> "#F08080") @@
  ("XDR-TB" :> "#FF0000")

\* A float NaN, in the fraction form of a percent: 0/0.
NaNPercent == [num |-> 0, den |-> 0]

\* counts["percent"].max(): NaN for an empty frame
MaxPercent(cnt) ==
  IF cnt = <<>> THEN NaNPercent
  ELSE cnt[CHOOSE i \in DOMAIN cnt : \A j \in DOMAIN cnt :
             cnt[j].percent.num * cnt[i].percent.den
               <= cnt[i].percent.num * cnt[j].percent.den].percent

\* 2. * max_percent / (40. ** 2)
SizeRef(maxp) == [num |-> 2 * maxp.num, den |-> maxp.den * 1600]

\* go.Scattergeo(...) for one type: the rows of that type, in frame order.
\* The percent labels and the hover template are formatting only and are
\* left out; customdata carries the values they show.
Scattergeo(cnt, drug, maxp) ==
  LET data == SelectSeq(cnt, LAMBDA r : r.dr_type = drug)
  IN [name |-> drug,
      lon |-> [i \in DOMAIN data |-> data[i].lon],
      lat |-> [i \in DOMAIN data |-> data[i].lat],
      size |-> [i \in DOMAIN data |-> data[i].percent],
      color |-> IF drug \in DOMAIN color_map THEN color_map[drug] ELSE "gray",
      sizeref |-> SizeRef(maxp),
      customdata |->
        [i \in DOMAIN data |->
           [country |-> data[i].country, dr_type |-> data[i].dr_type,
            count |-> data[i].count, total_samples |-> data[i].total_samples,
            percent |-> data[i].percent]]]

-----------------------------------------------------------------------------
(* The script, top to bottom *)

Init ==
  /\ pc = "read"
  /\ tsv \in Tables(MaxRows)
  /\ df = EmptyBag
  /\ total_per_country = <<>>
  /\ counts = <<>>
  /\ pending = <<>>
  /\ country_coords = [c \in {} |-> DefaultCoords]
  /\ events = <<>>
  /\ drugs = <<>>
  /\ max_percent = NaNPercent
  /\ traces = <<>>

\* line 16
ReadCsv ==
  /\ pc = "read"
  /\ df' = tsv
  /\ pc' = "dropna"
  /\ UNCHANGED <<tsv, total_per_country, counts, pending, country_coords,
                 events, drugs, max_percent, traces>>

\* line 17
DropNa ==
  /\ pc = "dropna"
  /\ df' = DropMissing(df)
  /\ pc' = "total"
  /\ UNCHANGED <<tsv, total_per_country, counts, pending, country_coords,
                 events, drugs, max_percent, traces>>

\* line 20
GroupTotals ==
  /\ pc = "total"
  /\ total_per_country' = TotalPerCountry(df)
  /\ pc' = "count"
  /\ UNCHANGED <<tsv, df, counts, pending, country_coords, events, drugs,
                 max_percent, traces>>

\* line 23
GroupCounts ==
  /\ pc = "count"
  /\ counts' = CountPerType(df)
  /\ pc' = "merge"
  /\ UNCHANGED <<tsv, df, total_per_country, pending, country_coords, events,
                 drugs, max_percent, traces>>

\* line 24
Merge ==
  /\ pc = "merge"
  /\ counts' = MergeTotals(counts, total_per_country)
  /\ pc' = "percent"
  /\ UNCHANGED <<tsv, df, total_per_country, pending, country_coords, events,
                 drugs, max_percent, traces>>

\* line 25
Percent ==
  /\ pc = "percent"
  /\ counts' = WithPercent(counts)
  /\ pc' = "iso"
  /\ UNCHANGED <<tsv, df, total_per_country, pending, country_coords, events,
                 drugs, max_percent, traces>>

\* line 34
AssignIso ==
  /\ pc = "iso"
  /\ counts' = WithIso(counts)
  /\ pc' = "isodrop"
  /\ UNCHANGED <<tsv, df, total_per_country, pending, country_coords, events,
                 drugs, max_percent, traces>>

\* line 35
DropIso ==
  /\ pc = "isodrop"
  /\ counts' = DropNoIso(counts)
  /\ pc' = "geocode"
  /\ UNCHANGED <<tsv, df, total_per_country, pending, country_coords, events,
                 drugs, max_percent, traces>>

\* lines 49-51: the loop is entered over the distinct countries of counts
StartGeocode ==
  /\ pc = "geocode"
  /\ pending' = Unique(counts)
  /\ country_coords' = [c \in {} |-> DefaultCoords]
  /\ pc' = "loop"
  /\ UNCHANGED <<tsv, df, total_per_country, counts, events, drugs,
                 max_percent, traces>>

\* Variant: the continue is missing; the lookup runs for Georgia as well and
\* overwrites the fixed pair when it returns a location.
OverrideGeorgiaNoContinue ==
  /\ pc = "loop"
  /\ pending # <<>>
  /\ Head(pending) = "Georgia"
  /\ \/ \E location \in Locations :
          /\ events' = Append(events, GeocodeEvent(Head(pending), "location"))
          /\ country_coords' = Store(country_coords, Head(pending), location)
     \/ /\ events' = Append(events, GeocodeEvent(Head(pending), "none"))
        /\ country_coords' = Store(country_coords, Head(pending), GeorgiaCoords)
  /\ pc' = "sleep"
  /\ UNCHANGED <<tsv, df, total_per_country, counts, pending, drugs,
                 max_percent, traces>>

\* lines 53-55: the override stores its pair and continues past the sleep
OverrideGeorgia ==
  /\ pc = "loop"
  /\ pending # <<>>
  /\ Head(pending) = "Georgia"
  /\ country_coords' = Store(country_coords, Head(pending), GeorgiaCoords)
  /\ pending' = Tail(pending)
  /\ UNCHANGED <<pc, tsv, df, total_per_country, counts, events, drugs,
                 max_percent, traces>>

\* lines 56-58
OverrideSudan ==
  /\ pc = "loop"
  /\ pending # <<>>
  /\ Head(pending) # "Georgia"
  /\ Head(pending) = "Sudan"
  /\ country_coords' = Store(country_coords, Head(pending), SudanCoords)
  /\ pending' = Tail(pending)
  /\ UNCHANGED <<pc, tsv, df, total_per_country, counts, events, drugs,
                 max_percent, traces>>

\* Variant: the sleep stands inside the try block, after the lookup, so a
\* lookup that raises goes on to the next country without sleeping.
GeocodeSleepInTry ==
  /\ pc = "loop"
  /\ pending # <<>>
  /\ Head(pending) # "Georgia"
  /\ Head(pending) # "Sudan"
  /\ \/ /\ \E location \in Locations :
             /\ events' = Append(events, GeocodeEvent(Head(pending), "location"))
             /\ country_coords' = Store(country_coords, Head(pending), location)
        /\ pc' = "sleep"
        /\ UNCHANGED pending
     \/ /\ events' = Append(events, GeocodeEvent(Head(pending), "none"))
        /\ pc' = "sleep"
        /\ UNCHANGED <<country_coords, pending>>
     \/ /\ events' = Append(events, GeocodeEvent(Head(pending), "raise"))
        /\ pending' = Tail(pending)
        /\ UNCHANGED <<pc, country_coords>>
  /\ UNCHANGED <<tsv, df, total_per_country, counts, drugs, max_percent,
                 traces>>

\* lines 59-63: the external lookup returns a location, returns nothing, or
\* raises; the bare except swallows the error
Geocode ==
  /\ pc = "loop"
  /\ pending # <<>>
  /\ Head(pending) # "Georgia"
  /\ Head(pending) # "Sudan"
  /\ \/ \E location \in Locations :
          /\ events' = Append(events, GeocodeEvent(Head(pending), "location"))
          /\ country_coords' = Store(country_coords, Head(pending), location)
     \/ /\ events' = Append(events, GeocodeEvent(Head(pending), "none"))
        /\ UNCHANGED country_coords
     \/ /\ events' = Append(events, GeocodeEvent(Head(pending), "raise"))
        /\ UNCHANGED country_coords
  /\ pc' = "sleep"
  /\ UNCHANGED <<tsv, df, total_per_country, counts, pending, drugs,
                 max_percent, traces>>

\* line 64, then the next iteration
Sleep ==
  /\ pc = "sleep"
  /\ events' = Append(events, SleepEvent(Head(pending)))
  /\ pending' = Tail(pending)
  /\ pc' = "loop"
  /\ UNCHANGED <<tsv, df, total_per_country, counts, country_coords, drugs,
                 max_percent, traces>>

\* the loop of line 51 is exhausted
EndGeocode ==
  /\ pc = "loop"
  /\ pending = <<>>
  /\ pc' = "coords"
  /\ UNCHANGED <<tsv, df, total_per_country, counts, pending, country_coords,
                 events, drugs, max_percent, traces>>

\* line 71, on a frame with rows
ApplyCoords ==
  /\ pc = "coords"
  /\ counts # <<>>
  /\ counts' = WithCoords(counts, country_coords)
  /\ pc' = "select"
  /\ UNCHANGED <<tsv, df, total_per_country, pending, country_coords, events,
                 drugs, max_percent, traces>>

\* line 71 on an empty frame (no row survived dropna and the ISO drop):
\* apply_coords raises KeyError on the empty probe row, DataFrame.apply then
\* returns an empty copy of the frame with its six columns, and assigning six
\* columns to the two keys lat, lon raises ValueError ("Columns must be same
\* length as key").  The script ends with a traceback and shows no figure.
ApplyCoordsRejected ==
  /\ pc = "coords"
  /\ counts = <<>>
  /\ pc' = "failed"
  /\ UNCHANGED <<tsv, df, total_per_country, counts, pending, country_coords,
                 events, drugs, max_percent, traces>>

\* line 75
Select ==
  /\ pc = "select"
  /\ counts' = SelectTypes(counts)
  /\ pc' = "figure"
  /\ UNCHANGED <<tsv, df, total_per_country, pending, country_coords, events,
                 drugs, max_percent, traces>>

\* lines 101-104
Figure ==
  /\ pc = "figure"
  /\ traces' = <<>>
  /\ max_percent' = MaxPercent(counts)
  /\ drugs' = selected_types
  /\ pc' = "trace"
  /\ UNCHANGED <<tsv, df, total_per_country, counts, pending, country_coords,
                 events>>

\* lines 105-131: one marker series per selected type
AddTrace ==
  /\ pc = "trace"
  /\ drugs # <<>>
  /\ traces' = Append(traces, Scattergeo(counts, Head(drugs), max_percent))
  /\ drugs' = Tail(drugs)
  /\ UNCHANGED <<pc, tsv, df, total_per_country, counts, pending,
                 country_coords, events, max_percent>>

\* lines 133-175
Show ==
  /\ pc = "trace"
  /\ drugs = <<>>
  /\ pc' = "done"
  /\ UNCHANGED <<tsv, df, total_per_country, counts, pending, country_coords,
                 events, drugs, max_percent, traces>>

Next ==
  \/ ReadCsv \/ DropNa \/ GroupTotals \/ GroupCounts \/ Merge \/ Percent
  \/ AssignIso \/ DropIso \/ StartGeocode \/ OverrideGeorgia \/ OverrideSudan
  \/ Geocode \/ Sleep \/ EndGeocode \/ ApplyCoords \/ ApplyCoordsRejected
  \/ Select \/ Figure \/ AddTrace \/ Show

Spec == Init /\ [][Next]_vars

TypeOK ==
  /\ pc \in {"read", "dropna", "total", "count", "merge", "percent", "iso",
             "isodrop", "geocode", "loop", "sleep", "coords", "select",
             "figure", "trace", "done", "failed"}
  /\ BagCardinality(tsv) <= MaxRows

-----------------------------------------------------------------------------
(* Vocabulary of the properties *)

\* Number of rows of the input file with both fields present, per key.
ValidCopies(c, t) == CopiesIn([country |-> c, dr_type |-> t], tsv)

\* The valid rows of a country: both fields present.
ValidRows(c) ==
  {r \in BagToSet(tsv) : r.country = c /\ r.dr_type # NaN}

HasValidRow(c) == ValidRows(c) # {}

RECURSIVE CopiesSum(_)
CopiesSum(rows) ==
  IF rows = {} THEN 0
  ELSE LET r == CHOOSE x \in rows : TRUE
       IN CopiesIn(r, tsv) + CopiesSum(rows \ {r})

\* Number of valid rows of a country in the input file.
ValidTotal(c) == CopiesSum(ValidRows(c))

RowsOf(cnt, c) == SelectSeq(cnt, LAMBDA r : r.country = c)

CountSum(cnt, c) ==
  LET rows == RowsOf(cnt, c) IN SeqSum([i \in DOMAIN rows |-> rows[i].count])

\* Exact sum of a sequence of fractions.
RECURSIVE FracSum(_)
FracSum(s) ==
  IF s = <<>> THEN [num |-> 0, den |-> 1]
  ELSE LET h == Head(s)
           r == FracSum(Tail(s))
       IN [num |-> h.num * r.den + r.num * h.den, den |-> h.den * r.den]

SevenTypes ==
  {"Sensitive", "Other", "HR-TB", "RR-TB", "MDR-TB", "Pre-XDR-TB", "XDR-TB"}

Recognised(c) == c \in DOMAIN IsoTable

\* The rendered plot points: (series, position) pairs of the figure.
Points ==
  UNION {{<<k, i>> : i \in DOMAIN traces[k].customdata} : k \in DOMAIN traces}

PointData(p) == traces[p[1]].customdata[p[2]]
PointLat(p) == traces[p[1]].lat[p[2]]
PointLon(p) == traces[p[1]].lon[p[2]]
PointSize(p) == traces[p[1]].size[p[2]]

PointsOf(c, t) ==
  {p \in Points : PointData(p).country = c /\ PointData(p).dr_type = t}

\* Positions of the script past the geocoding loop.
AfterLoop ==
  pc \in {"coords", "select", "figure", "trace", "done", "failed"}

GeocodeCalls(c) ==
  {i \in DOMAIN events : events[i].op = "geocode" /\ events[i].country = c}

-----------------------------------------------------------------------------
(* C1 *)

\* C1: in the aggregate (lines 20-25, before the ISO drop), for every country
\* with at least one valid row, there is one row per resistance type that has
\* valid rows, its count is the number of valid rows of the input with that
\* country and type, and total_samples of the country equals both the sum of
\* those counts and the number of its valid rows; rows with a missing field
\* add to neither.
C1_CountsSumToTotal ==
  pc \in {"percent", "iso", "isodrop"} =>
    \A c \in Countries :
      HasValidRow(c) =>
        LET rows == RowsOf(counts, c)
        IN /\ rows # <<>>
           /\ \A t \in Types :
                Cardinality({i \in DOMAIN rows : rows[i].dr_type = t})
                  = IF ValidCopies(c, t) > 0 THEN 1 ELSE 0
           /\ \A i \in DOMAIN rows :
                /\ rows[i].count = ValidCopies(c, rows[i].dr_type)
                /\ rows[i].total_samples = CountSum(counts, c)
                /\ rows[i].total_samples = ValidTotal(c)

\* A country with a valid row next to a row whose type is missing.
C1_Witness ==
  /\ pc = "percent"
  /\ CopiesIn([country |-> "Kenya", dr_type |-> NaN], tsv) = 1
  /\ Len(counts) = 1
  /\ counts[1].country = "Kenya"
  /\ counts[1].count = 1
  /\ counts[1].total_samples = 1

-----------------------------------------------------------------------------
(* C2 *)

\* C2: in the aggregate before the ISO drop and the type filter, each row's
\* percent is 100 * count / total_samples, and the percents of all the types
\* of a country, displayed or not, sum to exactly 100.
C2_PercentsSumTo100 ==
  pc \in {"iso", "isodrop"} =>
    /\ \A i \in DOMAIN counts :
         /\ counts[i].percent.den # 0
         /\ counts[i].percent.num * counts[i].total_samples
              = 100 * counts[i].count * counts[i].percent.den
    /\ \A c \in Countries :
         LET rows == RowsOf(counts, c)
             total == FracSum([i \in DOMAIN rows |-> rows[i].percent])
         IN rows # <<>> => (total.den # 0 /\ total.num = 100 * total.den)

\* A country with a displayed and an undisplayed type, 50 percent each.
C2_Witness ==
  /\ pc = "iso"
  /\ Len(counts) = 2
  /\ counts[1].country = "Kenya" /\ counts[1].dr_type = "Pre-MDR"
  /\ counts[2].country = "Kenya" /\ counts[2].dr_type = "Sensitive"
  /\ counts[1].percent.num * 2 = 100 * counts[1].percent.den

-----------------------------------------------------------------------------
(* C3 *)

\* C3: a country the ISO lookup does not recognise is in no marker series at
\* any point of the run, whatever its resistance types; from the ISO drop on
\* it is in no row of counts, and the geocoder is never asked about it.
C3_UnrecognisedNeverRendered ==
  \A c \in Countries :
    ~Recognised(c) =>
      /\ \A p \in Points : PointData(p).country # c
      /\ pc \notin {"read", "dropna", "total", "count", "merge", "percent",
                    "iso", "isodrop"} =>
           \A i \in DOMAIN counts : counts[i].country # c
      /\ GeocodeCalls(c) = {}

\* Atlantis has a row of a displayed type, and the figure shows another country.
C3_Witness ==
  /\ pc = "done"
  /\ ValidCopies("Atlantis", "MDR-TB") = 1
  /\ Points # {}

-----------------------------------------------------------------------------
(* C4 *)

\* C4: when the run ends, a country that passed the ISO lookup and has no
\* entry in the coordinate cache has each of its rows of a displayed type
\* rendered, at latitude 0.0 and longitude 30.0 plus the type's jitter.
C4_DefaultPoint ==
  pc = "done" =>
    \A c \in Countries :
      (Recognised(c) /\ c \notin DOMAIN country_coords) =>
        \A t \in SevenTypes :
          ValidCopies(c, t) > 0 =>
            \E p \in PointsOf(c, t) :
              /\ PointLat(p) = 0
              /\ PointLon(p) = 300000 + jitter_map[t]

\* The lookup for Kenya raised; its XDR-TB row is drawn at (0.0, 31.0).
C4_Witness ==
  /\ pc = "done"
  /\ \E i \in DOMAIN events :
       events[i].country = "Kenya" /\ events[i].result = "raise"
  /\ \E p \in PointsOf("Kenya", "XDR-TB") :
       PointLat(p) = 0 /\ PointLon(p) = 310000

-----------------------------------------------------------------------------
(* C5 *)

\* The offsets as the layout mapper documents them, in 1/10000 degree.
DocumentedOffset(t) ==
  CASE t = "Sensitive" -> 0
    [] t = "RR-TB" -> 2000
    [] t = "MDR-TB" -> 4000
    [] t = "Pre-XDR-TB" -> 6000
    [] t = "HR-TB" -> 8000
    [] t = "XDR-TB" -> 10000
    [] t = "Other" -> 12000
    [] OTHER -> 0

\* The resolved base coordinate of a country: its cache entry, else the default.
Base(c) ==
  IF c \in DOMAIN country_coords THEN country_coords[c]
  ELSE [lat |-> 0, lon |-> 300000]

\* C5: every row that has been given coordinates, and every rendered point,
\* has the base latitude of its country and the base longitude plus the
\* offset of its type: 0.0, 0.2, 0.4, 0.6, 0.8, 1.0, 1.2 for Sensitive,
\* RR-TB, MDR-TB, Pre-XDR-TB, HR-TB, XDR-TB, Other, and 0.0 for another label.
C5_LongitudeJitter ==
  /\ pc \in {"select", "figure", "trace", "done"} =>
       \A i \in DOMAIN counts :
         /\ counts[i].lat = Base(counts[i].country).lat
         /\ counts[i].lon = Base(counts[i].country).lon
                              + DocumentedOffset(counts[i].dr_type)
  /\ \A p \in Points :
       /\ PointLat(p) = Base(PointData(p).country).lat
       /\ PointLon(p) = Base(PointData(p).country).lon
                          + DocumentedOffset(PointData(p).dr_type)

\* Coordinates have just been applied to a geocoded country with a row of
\* type Other (offset 1.2) and a row of an unlisted label (offset 0.0).
C5_Witness ==
  /\ pc = "select"
  /\ "Uganda" \in DOMAIN country_coords
  /\ Len(counts) = 2
  /\ counts[1].country = "Uganda" /\ counts[1].dr_type = "Other"
  /\ counts[1].lon = country_coords["Uganda"].lon + 12000
  /\ counts[2].country = "Uganda" /\ counts[2].dr_type = "Pre-MDR"
  /\ counts[2].lon = country_coords["Uganda"].lon

-----------------------------------------------------------------------------
(* C6 *)

\* C6: every row that reaches the renderer, and every rendered point, has one
\* of the seven types; a point lies in the series named after its type; and
\* when the figure is complete each (country, type) pair with a recognised
\* country, a displayed type and a valid row is drawn exactly once, every
\* other pair not at all.
C6_SevenTypesOncePerPair ==
  /\ pc \in {"figure", "trace", "done"} =>
       \A i \in DOMAIN counts : counts[i].dr_type \in SevenTypes
  /\ LET pts == Points
     IN \A p \in pts :
          /\ PointData(p).dr_type \in SevenTypes
          /\ PointData(p).dr_type = traces[p[1]].name
          /\ \A q \in pts :
               (/\ PointData(q).country = PointData(p).country
                /\ PointData(q).dr_type = PointData(p).dr_type) => q = p
  /\ \A k1, k2 \in DOMAIN traces : traces[k1].name = traces[k2].name => k1 = k2
  /\ pc = "done" =>
       \A c \in Countries, t \in Types :
         Cardinality(PointsOf(c, t))
           = IF Recognised(c) /\ t \in SevenTypes /\ ValidCopies(c, t) > 0
             THEN 1 ELSE 0

\* A country with a row of a displayed type and a row of an undisplayed
\* label: the finished figure holds the one point of the displayed pair.
C6_Witness ==
  /\ pc = "done"
  /\ ValidCopies("Kenya", "Pre-MDR") = 1
  /\ ValidCopies("Kenya", "RR-TB") = 1
  /\ Cardinality(Points) = 1
  /\ PointsOf("Kenya", "RR-TB") # {}

-----------------------------------------------------------------------------
(* C7 *)

\* C7: every external lookup, whether it returned a location, returned
\* nothing or raised, is directly followed by a sleep of one second before
\* anything else is sent to the geocoder, and after a failed lookup the loop
\* still visits every remaining country.
C7_SleepAfterEveryLookup ==
  /\ \A i \in DOMAIN events :
       events[i].op = "geocode" =>
         IF i = Len(events) THEN pc = "sleep"
         ELSE /\ events[i + 1].op = "sleep"
              /\ events[i + 1].secs = 1
              /\ events[i + 1].country = events[i].country
  /\ AfterLoop =>
       \A c \in Countries :
         (Recognised(c) /\ HasValidRow(c)) =>
           \/ c \in {"Georgia", "Sudan"} /\ c \in DOMAIN country_coords
           \/ GeocodeCalls(c) # {}

\* A lookup raised, the loop slept, and the next country was looked up.
C7_Witness ==
  /\ Len(events) >= 3
  /\ events[1].op = "geocode" /\ events[1].result = "raise"
  /\ events[2].op = "sleep"
  /\ events[3].op = "geocode" /\ events[3].country # events[1].country

-----------------------------------------------------------------------------
(* C8 *)

\* C8: the geocoder is never called for Georgia or Sudan; once the loop has
\* run, each of the two that is in the aggregate has its fixed pair in the
\* cache, (42.3154, 43.3569) and (12.8628, 30.2176); and each of their
\* points lies at the fixed pair plus the jitter of its type.
C8_Overrides ==
  /\ GeocodeCalls("Georgia") = {} /\ GeocodeCalls("Sudan") = {}
  /\ "Georgia" \in DOMAIN country_coords =>
       country_coords["Georgia"] = [lat |-> 423154, lon |-> 433569]
  /\ "Sudan" \in DOMAIN country_coords =>
       country_coords["Sudan"] = [lat |-> 128628, lon |-> 302176]
  /\ AfterLoop =>
       \A c \in {"Georgia", "Sudan"} :
         HasValidRow(c) => c \in DOMAIN country_coords
  /\ \A p \in Points :
       /\ PointData(p).country = "Georgia" =>
            /\ PointLat(p) = 423154
            /\ PointLon(p) = 433569 + DocumentedOffset(PointData(p).dr_type)
       /\ PointData(p).country = "Sudan" =>
            /\ PointLat(p) = 128628
            /\ PointLon(p) = 302176 + DocumentedOffset(PointData(p).dr_type)

\* Both overrides are drawn: Georgia's MDR-TB point and Sudan's HR-TB point.
C8_Witness ==
  /\ pc = "done"
  /\ events = <<>>
  /\ \E p \in PointsOf("Georgia", "MDR-TB") : PointLon(p) = 437569
  /\ \E p \in PointsOf("Sudan", "HR-TB") : PointLon(p) = 310176

-----------------------------------------------------------------------------
(* C9 *)

\* Exact sum of the sizes (percents) of a set of points.
RECURSIVE SizeSum(_)
SizeSum(ps) ==
  IF ps = {} THEN [num |-> 0, den |-> 1]
  ELSE LET p == CHOOSE x \in ps : TRUE
           h == PointSize(p)
           r == SizeSum(ps \ {p})
       IN [num |-> h.num * r.den + r.num * h.den, den |-> h.den * r.den]

\* The displayed percents of a country, summed.
DisplayedSum(c) == SizeSum({p \in Points : PointData(p).country = c})

HasUnselectedLabel(c) == \E t \in Types \ SevenTypes : ValidCopies(c, t) > 0

\* Every row left after the ISO drop, and every rendered point, carries the
\* count of its pair, the full total of its country (unselected labels
\* included) and the percent computed from the two.
SurvivorsUnchanged ==
  /\ pc \in {"geocode", "loop", "sleep", "coords", "select", "figure",
             "trace", "done", "failed"} =>
       \A i \in DOMAIN counts :
         /\ counts[i].count = ValidCopies(counts[i].country, counts[i].dr_type)
         /\ counts[i].total_samples = ValidTotal(counts[i].country)
         /\ counts[i].percent.den # 0
         /\ counts[i].percent.num * counts[i].total_samples
              = 100 * counts[i].count * counts[i].percent.den
  /\ \A p \in Points :
       /\ PointData(p).count
            = ValidCopies(PointData(p).country, PointData(p).dr_type)
       /\ PointData(p).total_samples = ValidTotal(PointData(p).country)
       /\ PointSize(p) = PointData(p).percent
       /\ PointSize(p).den # 0
       /\ PointSize(p).num * PointData(p).total_samples
            = 100 * PointData(p).count * PointSize(p).den

\* C9 as stated: for every country with a valid row, the displayed percents
\* sum to at most 100, and to less than 100 exactly when the country has a
\* valid row with an unselected label.
C9_AsStated ==
  /\ SurvivorsUnchanged
  /\ pc = "done" =>
       \A c \in Countries :
         HasValidRow(c) =>
           LET shown == DisplayedSum(c)
           IN /\ shown.num <= 100 * shown.den
              /\ (shown.num < 100 * shown.den) <=> HasUnselectedLabel(c)

\* C9, amended: over exact arithmetic, the filter and the ISO drop leave
\* count, total_samples and percent of the surviving rows unchanged; for a
\* country the ISO lookup recognises the displayed percents sum to at most
\* 100, and to less than 100 exactly when it has a valid row with an
\* unselected label; a country the ISO lookup drops displays nothing,
\* whatever its labels.
C9_DisplayedPercents ==
  /\ SurvivorsUnchanged
  /\ pc = "done" =>
       \A c \in Countries :
         HasValidRow(c) =>
           LET shown == DisplayedSum(c)
           IN /\ shown.den > 0
              /\ shown.num <= 100 * shown.den
              /\ Recognised(c) =>
                   ((shown.num < 100 * shown.den) <=> HasUnselectedLabel(c))
              /\ ~Recognised(c) => shown.num = 0

\* A recognised country with one displayed and one unselected label shows 50.
C9_Witness ==
  /\ pc = "done"
  /\ ValidCopies("Uganda", "Pre-MDR") = 1
  /\ ValidCopies("Uganda", "HR-TB") = 1
  /\ DisplayedSum("Uganda").num * 2 = 100 * DisplayedSum("Uganda").den

-----------------------------------------------------------------------------
(* C10 *)

\* C10: the external geocoder is called at most once per country name and
\* never for a country the ISO lookup dropped; once the loop has run it has
\* been called exactly once for every recognised country of the aggregate
\* other than the two overrides, also for a country whose rows all carry
\* labels outside the seven displayed types.
C10_OneLookupPerCountry ==
  /\ \A i, j \in DOMAIN events :
       (/\ events[i].op = "geocode" /\ events[j].op = "geocode"
        /\ events[i].country = events[j].country) => i = j
  /\ \A i \in DOMAIN events :
       events[i].op = "geocode" =>
         /\ Recognised(events[i].country)
         /\ HasValidRow(events[i].country)
  /\ AfterLoop =>
       \A c \in Countries \ {"Georgia", "Sudan"} :
         (Recognised(c) /\ HasValidRow(c)) =>
           Cardinality(GeocodeCalls(c)) = 1

\* Kenya's only row carries an undisplayed label and Atlantis is dropped by
\* the ISO lookup: Kenya was looked up once, and the figure is empty.
C10_Witness ==
  /\ pc = "done"
  /\ ValidCopies("Atlantis", "Sensitive") = 1
  /\ ValidCopies("Kenya", "Pre-MDR") = 1
  /\ Cardinality(GeocodeCalls("Kenya")) = 1
  /\ Points = {}

=============================================================================
